---- MODULE Spec2Model ----
(***************************************************************************)
(* Model of the `fina fetch security` command: the SQLite bar cache        *)
(* (coverage analysis, read, upsert), the Alpha Vantage provider's         *)
(* getHistory, and the orchestration of the three cache policies in        *)
(* fetchSecurityCommand.                                                   *)
(*                                                                         *)
(* Representation of values                                                *)
(*   - A Dayjs instant is an integer count of clock ticks; a calendar day  *)
(*     has TicksPerDay ticks.  The process runs in UTC.                    *)
(*   - A date string is a sequence of integers compared lexicographically, *)
(*     as SQLite and JavaScript compare strings: 'YYYY-MM-DD' is <<day>>   *)
(*     and an ISO-8601 string 'YYYY-MM-DDTHH:mm:ss.SSSZ' is                *)
(*     <<day, tickOfDay>>, so 'YYYY-MM-DD' is a proper prefix of every ISO *)
(*     string of the same day.                                             *)
(*   - A bar carries its key (ticker, interval, datetime) and `close`,     *)
(*     which stands for all the value columns of the row.                  *)
(***************************************************************************)
EXTENDS Integers, Sequences, FiniteSets, TLC

\* ---------------------------------------------------------------- bounds
MaxDay == 2
MaxTickers == 2
MaxBars == 2
TicksPerDay == 2

Tickers == {"A", "B"}
Days == 1..MaxDay
Closes == {100, 101}
Granularities == {"1d"}
CachePolicies == {"use", "ignore", "refresh"}

\* ------------------------------------------------------- sequence helpers
Range(s) == {s[i] : i \in 1..Len(s)}

SeqsUpTo(S, n) == UNION {[1..k -> S] : k \in 0..n}

RECURSIVE Concat(_)
Concat(ss) == IF ss = <<>> THEN <<>> ELSE Head(ss) \o Concat(Tail(ss))

RECURSIVE Reverse(_)
Reverse(s) == IF s = <<>> THEN <<>> ELSE Append(Reverse(Tail(s)), Head(s))

RECURSIVE SumLen(_, _)
SumLen(f, dom) ==
    IF dom = {} THEN 0
    ELSE LET k == CHOOSE x \in dom : TRUE IN Len(f[k]) + SumLen(f, dom \ {k})

\* --------------------------------------------------- strings and instants
\* JavaScript `undefined`, where a string was expected.
Undefined == << -1 >>

\* a < b for strings (lexicographic; a proper prefix is smaller).
StrLT(a, b) ==
    \E i \in 1..Len(b) :
        /\ \A j \in 1..(i - 1) : j <= Len(a) /\ a[j] = b[j]
        /\ (i > Len(a) \/ a[i] < b[i])

StrLE(a, b) == a = b \/ StrLT(a, b)

\* dayjs .startOf('day'), .endOf('day'), .add(n, 'day')
startOfDay(t) == (t \div TicksPerDay) * TicksPerDay
endOfDay(t) == startOfDay(t) + (TicksPerDay - 1)
addDays(t, n) == t + n * TicksPerDay

\* dayjs .format('YYYY-MM-DD')
formatYMD(t) == << t \div TicksPerDay >>

\* dayjs(string): 'YYYY-MM-DD' is midnight of that day, an ISO string its instant.
dayjs(s) == IF Len(s) = 1 THEN s[1] * TicksPerDay ELSE s[1] * TicksPerDay + s[2]

\* dayjs .toISOString()
toISOString(t) == << t \div TicksPerDay, t % TicksPerDay >>

\* ------------------------------------------------------------------- bars
Bar(t, g, dt, c) == [ticker |-> t, interval |-> g, datetime |-> dt, close |-> c]

\* PRIMARY KEY (ticker, interval, datetime) of table security_bar
PrimaryKey(r) == <<r.ticker, r.interval, r.datetime>>

\* The columns of table security_bar.
SecurityBarColumns == {"ticker", "interval", "datetime", "close"}

EmptyMap == [t \in {} |-> <<>>]

\* ------------------------------------------------ SqliteCacheService (db)
\* The store `db` is the set of rows of table security_bar.

\* INSERT OR IGNORE: a stored row with the same primary key is kept.
InsertOrIgnore(db, point) ==
    IF \E r \in db : PrimaryKey(r) = PrimaryKey(point) THEN db ELSE db \cup {point}

\* One `INSERT OR REPLACE INTO security_bar ...`: a row with the same primary
\* key is deleted, then the new row is inserted.
InsertOrReplace(db, point) ==
    {r \in db : PrimaryKey(r) # PrimaryKey(point)} \cup {point}

\* insertMany: the transaction runs the insert for each point in order.
RECURSIVE insertMany(_, _)
insertMany(db, points) ==
    IF points = <<>> THEN db
    ELSE insertMany(InsertOrReplace(db, Head(points)), Tail(points))

updateSecurityData(db, dataPoints) ==
    IF Len(dataPoints) = 0 THEN db ELSE insertMany(db, dataPoints)

\* Every insert is committed on its own: an interrupted batch leaves the
\* inserts made so far.
autocommit(db, points, crashAt) ==
    IF crashAt \in 1..Len(points)
    THEN [ok |-> FALSE, db |-> insertMany(db, SubSeq(points, 1, crashAt))]
    ELSE [ok |-> TRUE, db |-> insertMany(db, points)]

\* this.db.transaction(points => { for (...) insertStmt.run(point) })(points):
\* the inserts run in one transaction.  When a statement raises or the
\* process dies after `crashAt` of them (0: never), the transaction is
\* rolled back and nothing of the batch is kept.
transaction(db, points, crashAt) ==
    IF crashAt \in 1..Len(points)
    THEN [ok |-> FALSE, db |-> db]
    ELSE [ok |-> TRUE, db |-> insertMany(db, points)]

\* updateSecurityData where the write may be interrupted.
updateOrCrash(db, dataPoints, crashAt) ==
    IF Len(dataPoints) = 0 THEN [ok |-> TRUE, db |-> db]
    ELSE transaction(db, dataPoints, crashAt)

\* ORDER BY col ASC over a set of rows.
RECURSIVE OrderBy(_, _)
OrderBy(rows, col) ==
    IF rows = {} THEN <<>>
    ELSE LET first == CHOOSE r \in rows : \A q \in rows : StrLE(r[col], q[col])
         IN  <<first>> \o OrderBy(rows \ {first}, col)

\* The column getSecurityData's WHERE and ORDER BY clauses name.
getSecurityDataColumn == "date"

\* SELECT * FROM security_bar WHERE ticker IN (...) AND date >= ? AND date <= ?
\* ORDER BY date ASC.  Preparing a statement that names a column the table
\* does not have throws.
getSecurityData(db, request) ==
    IF getSecurityDataColumn \notin SecurityBarColumns
    THEN [ok |-> FALSE, rows |-> <<>>]
    ELSE LET col == getSecurityDataColumn
             sel == {r \in db :
                        /\ r.ticker \in Range(request.tickers)
                        /\ StrLE(formatYMD(request.startDate), r[col])
                        /\ StrLE(r[col], formatYMD(request.endDate))}
         IN  [ok |-> TRUE, rows |-> OrderBy(sel, col)]

\* JavaScript property read: a missing property is undefined.
JsProp(row, name) == IF name \in DOMAIN row THEN row[name] ELSE Undefined

\* SELECT datetime FROM security_bar WHERE ticker = ? AND interval = ?
\* AND datetime >= ? AND datetime <= ?
coverageRows(db, request, ticker) ==
    {[datetime |-> r.datetime] :
        r \in {q \in db :
                 /\ q.ticker = ticker
                 /\ q.interval = request.granularity
                 /\ StrLE(formatYMD(request.startDate), q.datetime)
                 /\ StrLE(q.datetime, formatYMD(request.endDate))}}

\* new Set(results.map(row => row.date))
cachedDatesOf(results) == {JsProp(row, "date") : row \in results}

\* The inner while loop: advance over the run of missing days.
RECURSIVE extendMissingRun(_, _, _)
extendMissingRun(currentDay, endDate, cachedDates) ==
    IF currentDay <= endDate /\ formatYMD(currentDay) \notin cachedDates
    THEN extendMissingRun(addDays(currentDay, 1), endDate, cachedDates)
    ELSE currentDay

\* The outer while loop of analyzeCacheCoverage for one ticker.
RECURSIVE scanMissingRanges(_, _, _, _)
scanMissingRanges(currentDay, endDate, cachedDates, acc) ==
    IF ~(currentDay <= endDate) THEN acc
    ELSE IF formatYMD(currentDay) \notin cachedDates
         THEN LET next == extendMissingRun(currentDay, endDate, cachedDates)
                  rangeEnd == addDays(next, -1)
              IN  scanMissingRanges(next, endDate, cachedDates,
                      Append(acc, [startDate |-> currentDay, endDate |-> rangeEnd]))
         ELSE scanMissingRanges(addDays(currentDay, 1), endDate, cachedDates, acc)

tickerMissingRanges(db, request, ticker) ==
    scanMissingRanges(request.startDate, request.endDate,
                      cachedDatesOf(coverageRows(db, request, ticker)), <<>>)

\* missingRangesByTicker: a key only for a ticker with at least one range.
analyzeCacheCoverage(db, request) ==
    [t \in {u \in Range(request.tickers) :
                Len(tickerMissingRanges(db, request, u)) > 0}
        |-> tickerMissingRanges(db, request, t)]

\* ------------------------------------------------- array.ts: grouping
\* mapByKeyFn: a Map in insertion order, here a sequence of <<key, rows>>.
RECURSIVE mapByKeyFn(_, _)
mapByKeyFn(rows, m) ==
    IF rows = <<>> THEN m
    ELSE LET v == Head(rows)
             key == PrimaryKey(v)
             hit == {i \in 1..Len(m) : m[i][1] = key}
         IN  IF hit = {}
             THEN mapByKeyFn(Tail(rows), Append(m, <<key, <<v>> >>))
             ELSE LET i == CHOOSE j \in hit : TRUE
                  IN  mapByKeyFn(Tail(rows),
                          [m EXCEPT ![i] = <<key, Append(m[i][2], v)>>])

\* groupByKeyFn(rows, r => `${r.ticker}|${r.interval}|${r.datetime}`)
groupByKeyFn(rows) == mapByKeyFn(rows, <<>>)

\* The comparator with its operands swapped: dayjs(b.datetime).diff(dayjs(a.datetime)).
RECURSIVE insertSortedSwapped(_, _)
insertSortedSwapped(sorted, bar) ==
    IF sorted = <<>> THEN <<bar>>
    ELSE IF dayjs(bar.datetime) - dayjs(Head(sorted).datetime) <= 0
         THEN <<Head(sorted)>> \o insertSortedSwapped(Tail(sorted), bar)
         ELSE <<bar>> \o sorted

\* Array.prototype.sort with comparator dayjs(a.datetime).diff(dayjs(b.datetime)):
\* a stable sort, ascending by instant.
RECURSIVE insertSorted(_, _)
insertSorted(sorted, bar) ==
    IF sorted = <<>> THEN <<bar>>
    ELSE IF dayjs(Head(sorted).datetime) - dayjs(bar.datetime) <= 0
         THEN <<Head(sorted)>> \o insertSorted(Tail(sorted), bar)
         ELSE <<bar>> \o sorted

RECURSIVE sortByDatetime(_)
sortByDatetime(bars) ==
    IF bars = <<>> THEN <<>>
    ELSE insertSorted(sortByDatetime(SubSeq(bars, 1, Len(bars) - 1)), bars[Len(bars)])

\* The element of each group that the merge keeps: bar[1][0].
pickOfGroup(group) == group[2][1]

\* finalData = groupByKeyFn([...cachedData, ...newData], key)
\*               .map(bar => bar[1][0]).sort(byDatetime)
reconcile(cachedData, newData) ==
    LET groups == groupByKeyFn(cachedData \o newData)
    IN  sortByDatetime([i \in 1..Len(groups) |-> pickOfGroup(groups[i])])

\* --------------------------------------------------- AlphaVantageProvider
\* What the remote service answers to one call: either a body without a
\* 'Time Series' key, or a series of entries keyed by date, newest first.
\* The service publishes the same trading days for every symbol.
RECURSIVE seriesEntries(_, _, _)
seriesEntries(day, days, close) ==
    IF day < 1 THEN <<>>
    ELSE (IF day \in days THEN <<[date |-> <<day>>, close |-> close]>> ELSE <<>>)
         \o seriesEntries(day - 1, days, close)

NoSeries == [Information |-> <<>>]

ApiResponses ==
    {NoSeries} \cup
    {[TimeSeries |-> seriesEntries(MaxDay, days, c)] : days \in SUBSET Days, c \in Closes}

\* transformData: no series key gives []; otherwise one bar per entry, with
\* datetime = dayjs(key).toISOString(), and the list reversed.
transformData(apiResponse, ticker, interval) ==
    IF "TimeSeries" \notin DOMAIN apiResponse THEN <<>>
    ELSE LET timeSeries == apiResponse.TimeSeries
             dataPoints == [i \in 1..Len(timeSeries) |->
                              Bar(ticker, interval,
                                  toISOString(dayjs(timeSeries[i].date)),
                                  timeSeries[i].close)]
         IN  Reverse(dataPoints)

\* parseGranularityToMinutes: /^(\d+)(min|h)$/, 0 standing for null.  The
\* tokens '1hr', '1d', '1w', '1m' and '1x' do not match.
parseGranularityToMinutes(granularity) ==
    CASE granularity = "1min" -> 1
      [] granularity = "2min" -> 2
      [] granularity = "3min" -> 3
      [] granularity = "60min" -> 60
      [] granularity = "120min" -> 120
      [] granularity = "1h" -> 60
      [] granularity = "2h" -> 120
      [] OTHER -> 0

\* getGranularityInfo(...).baseIntervalMinutes for an intraday request: the
\* largest supported interval that divides the requested one, else 60.
baseIntervalMinutes(requestedMinutes) ==
    LET fits == {i \in {1, 5, 15, 30, 60} : requestedMinutes % i = 0 /\ requestedMinutes >= i}
    IN  IF fits = {} THEN 60 ELSE CHOOSE i \in fits : \A j \in fits : j <= i

\* granularity.endsWith(suffix) for the tokens that are not intraday.
endsWith(granularity, suffix) ==
    \/ suffix = "d" /\ granularity = "1d"
    \/ suffix = "w" /\ granularity = "1w"
    \/ suffix = "m" /\ granularity = "1m"

\* getGranularityInfo: intraday when the token parses to minutes, else
\* daily, weekly or monthly by its last letter, else it throws.
\* baseIntervalMinutes 0 stands for null.
getGranularityInfo(granularity) ==
    LET requestedMinutes == parseGranularityToMinutes(granularity)
    IN  IF requestedMinutes # 0
        THEN [ok |-> TRUE, baseIntervalMinutes |-> baseIntervalMinutes(requestedMinutes)]
        ELSE IF \E suffix \in {"d", "w", "m"} : endsWith(granularity, suffix)
        THEN [ok |-> TRUE, baseIntervalMinutes |-> 0]
        ELSE [ok |-> FALSE, baseIntervalMinutes |-> 0]

\* request.tickers.filter(t => request.ranges.get(t)?.length)
tickersToFetch(request) ==
    SelectSeq(request.tickers,
              LAMBDA t : t \in DOMAIN request.ranges /\ Len(request.ranges[t]) > 0)

\* getHistory.  `proceed` is FALSE when the key is not premium and the user
\* declines the warning (the call throws before any fetch); `errAt` is the
\* position of the API call that raises (0: none).  `calls` lists the
\* tickers for which an API call was issued.  The granularity is examined
\* inside the loop, before the first call is issued.
getHistory(request, apiResponse, proceed, errAt) ==
    LET list == tickersToFetch(request)
    IN  IF ~proceed THEN [ok |-> FALSE, data |-> <<>>, calls |-> <<>>]
        ELSE IF Len(list) > 0 /\ ~getGranularityInfo(request.granularity).ok
        THEN [ok |-> FALSE, data |-> <<>>, calls |-> <<>>]
        ELSE IF errAt \in 1..Len(list)
        THEN [ok |-> FALSE, data |-> <<>>, calls |-> SubSeq(list, 1, errAt)]
        ELSE [ok |-> TRUE,
              data |-> Concat([i \in 1..Len(list) |->
                          transformData(apiResponse, list[i], request.granularity)]),
              calls |-> list]

\* planFetch
planFetch(request) == [estimatedApiCallCount |-> Len(request.tickers), estimatedTime |-> 0]

\* ---------------------------------------------------- fetchSecurityCommand
\* parseDateToken for an absolute token: /^\d{4}-\d{2}-\d{2}$/ accepts a
\* date and nothing longer; any other token throws.
parseDateToken(token) ==
    IF Len(token) = 1 THEN [ok |-> TRUE, date |-> dayjs(token)] ELSE [ok |-> FALSE]

\* The date tokens of well-formed requests, and a token with a time of day.
DateTokens == {<<d>> : d \in Days}
MalformedDateTokens == {<<1, 0>>}

\* parseDateRange for a 'start:end' string of two absolute tokens.
parseDateRange(date) ==
    LET endDate == parseDateToken(date.end)
        startDate == parseDateToken(date.start)
    IN  IF ~endDate.ok \/ ~startDate.ok THEN [ok |-> FALSE]
        ELSE IF startDate.date > endDate.date THEN [ok |-> FALSE]
        ELSE [ok |-> TRUE, startDate |-> startOfDay(startDate.date),
              endDate |-> endOfDay(endDate.date)]

NoRequest == [tickers |-> <<>>]

\* The letters of a field selector (--fields).
FieldLetters == {"o", "h", "l", "c", "v", "a", "d", "s", "r"}

\* options.fields.split(''): the array of the string's characters.  A
\* selector string is a sequence of letters already.
split(str) == str

\* The selectors of whole runs: close with returns.
RunSelectors == {<<"c", "r">>}

validateAndBuildRequest(options) ==
    IF Len(options.ticker) = 0 THEN [ok |-> FALSE, request |-> NoRequest]
    ELSE LET range == parseDateRange(options.date)
         IN  IF ~range.ok THEN [ok |-> FALSE, request |-> NoRequest]
             ELSE [ok |-> TRUE,
                   request |-> [tickers |-> options.ticker,
                                startDate |-> range.startDate,
                                endDate |-> range.endDate,
                                granularity |-> options.granularity,
                                fields |-> split(options.fields),
                                cachePolicy |-> options.cachePolicy,
                                ranges |-> EmptyMap]]

Options ==
    [ticker : SeqsUpTo(Tickers, MaxTickers),
     date : [start : DateTokens, end : DateTokens],
     granularity : Granularities,
     fields : RunSelectors,
     unadjusted : {FALSE},
     cachePolicy : CachePolicies,
     plan : BOOLEAN,
     yes : BOOLEAN]

\* Entries of the call log.
Op(name, arg) == <<name, arg>>
fetchOps(calls) == [i \in 1..Len(calls) |-> Op("fetch", calls[i])]

\* new Set(entries with a non-empty range list).map(entry => entry[0])
missingTickersOf(coverage) == {t \in DOMAIN coverage : Len(coverage[t]) > 0}

\* A collaborator throws: the provider (getHistory) or the store.
raiseOp(who) == <<Op("raise", who)>>

\* The 'ignore' branch.
runIgnore(db, request, apiResponse, proceed, errAt) ==
    LET h == getHistory(request, apiResponse, proceed, errAt)
    IN  [ok |-> h.ok, store |-> db, coverage |-> EmptyMap, cachedData |-> <<>>,
         newData |-> h.data, finalData |-> h.data,
         ops |-> <<Op("getHistory", "-")>> \o fetchOps(h.calls)
                 \o (IF h.ok THEN <<>> ELSE raiseOp("provider"))]

\* The 'refresh' branch without its cache write.
runRefreshWithoutWrite(db, request, apiResponse, proceed, errAt, crashAt) ==
    runIgnore(db, request, apiResponse, proceed, errAt)

\* The 'refresh' branch.
runRefresh(db, request, apiResponse, proceed, errAt, crashAt) ==
    LET h == getHistory(request, apiResponse, proceed, errAt)
        w == updateOrCrash(db, h.data, crashAt)
        opsFetch == <<Op("getHistory", "-")>> \o fetchOps(h.calls)
    IN  IF ~h.ok
        THEN [ok |-> FALSE, store |-> db, coverage |-> EmptyMap, cachedData |-> <<>>,
              newData |-> <<>>, finalData |-> <<>>,
              ops |-> opsFetch \o raiseOp("provider")]
        ELSE IF ~w.ok
        THEN [ok |-> FALSE, store |-> w.db, coverage |-> EmptyMap, cachedData |-> <<>>,
              newData |-> h.data, finalData |-> <<>>,
              ops |-> opsFetch \o <<Op("updateSecurityData", "-")>> \o raiseOp("store")]
        ELSE [ok |-> TRUE, store |-> w.db,
              coverage |-> EmptyMap, cachedData |-> <<>>,
              newData |-> h.data, finalData |-> h.data,
              ops |-> opsFetch \o <<Op("updateSecurityData", "-")>>]

\* The 'use' branch.
runUse(db, request, apiResponse, proceed, errAt, crashAt) ==
    LET coverage == analyzeCacheCoverage(db, request)
        missingTickers == missingTickersOf(coverage)
        doRead == Len(request.tickers) > Cardinality(missingTickers)
        cacheRequest == [request EXCEPT !.tickers =
                            SelectSeq(request.tickers, LAMBDA t : t \notin missingTickers)]
        read == IF doRead THEN getSecurityData(db, cacheRequest)
                ELSE [ok |-> TRUE, rows |-> <<>>]
        cachedData == read.rows
        opsRead == <<Op("analyzeCacheCoverage", "-")>>
                   \o (IF doRead THEN <<Op("getSecurityData", "-")>> ELSE <<>>)
        missingDataRequest == [request EXCEPT !.ranges = coverage]
        h == getHistory(missingDataRequest, apiResponse, proceed, errAt)
        opsFetch == opsRead \o <<Op("getHistory", "-")>> \o fetchOps(h.calls)
        doWrite == Len(h.data) > 0
        w == IF doWrite THEN updateOrCrash(db, h.data, crashAt) ELSE [ok |-> TRUE, db |-> db]
        opsWrite == opsFetch \o (IF doWrite THEN <<Op("updateSecurityData", "-")>> ELSE <<>>)
        failed(st, fetched, ops) ==
            [ok |-> FALSE, store |-> st, coverage |-> coverage,
             cachedData |-> cachedData, newData |-> fetched,
             finalData |-> <<>>, ops |-> ops]
    IN  IF ~read.ok THEN failed(db, <<>>, opsRead \o raiseOp("store"))
        ELSE IF missingTickers = {}
        THEN [ok |-> TRUE, store |-> db, coverage |-> coverage,
              cachedData |-> cachedData, newData |-> <<>>,
              finalData |-> cachedData, ops |-> opsRead]
        ELSE IF ~h.ok THEN failed(db, <<>>, opsFetch \o raiseOp("provider"))
        ELSE IF ~w.ok THEN failed(w.db, h.data, opsWrite \o raiseOp("store"))
        ELSE [ok |-> TRUE,
              store |-> w.db,
              coverage |-> coverage, cachedData |-> cachedData, newData |-> h.data,
              finalData |-> reconcile(cachedData, h.data),
              ops |-> opsWrite \o <<Op("merge", "-")>>]

runPolicy(db, request, apiResponse, proceed, errAt, crashAt) ==
    IF request.cachePolicy = "ignore" THEN runIgnore(db, request, apiResponse, proceed, errAt)
    ELSE IF request.cachePolicy = "refresh"
    THEN runRefresh(db, request, apiResponse, proceed, errAt, crashAt)
    ELSE runUse(db, request, apiResponse, proceed, errAt, crashAt)

\* A plan block that asks the provider for the data to size the plan.
planOpsWithHistory(db, request, yes) ==
    <<Op("analyzeCacheCoverage", "-"), Op("getHistory", "-")>>
    \o (IF ~yes THEN <<Op("prompt", "-")>> ELSE <<>>)

\* The plan block: coverage analysis, planFetch when something is missing,
\* and the confirmation prompt unless -y was given.
planOps(db, request, yes) ==
    LET coverage == analyzeCacheCoverage(db, request)
        missingCount == SumLen(coverage, DOMAIN coverage)
    IN  <<Op("analyzeCacheCoverage", "-")>>
        \o (IF missingCount > 0 THEN <<Op("planFetch", "-")>> ELSE <<>>)
        \o (IF ~yes THEN <<Op("prompt", "-")>> ELSE <<>>)

\* ------------------------------------------------ transform/service.ts
\* Prices, adjClose and splitCoefficient are fixed-point numbers with four
\* decimals (the precision toFixed(4) keeps): 1.0 is PriceScale.
PriceScale == 10000

\* JavaScript truthiness of a numeric property: present and not 0.
Truthy(point, key) == key \in DOMAIN point /\ point[key] # 0

RECURSIVE GCD(_, _)
GCD(a, b) == IF b = 0 THEN a ELSE GCD(b, a % b)

Abs(x) == IF x < 0 THEN -x ELSE x

\* The quotient n / d of two numbers with d > 0, in lowest terms.
Quotient(n, d) ==
    LET g == GCD(Abs(n), d)
    IN  IF n = 0 THEN <<0, 1>> ELSE <<n \div g, d \div g>>

\* n / d rounded to the nearest integer, for n >= 0 and d > 0
\* (Math.round, and toFixed on fixed-point values).
RoundDiv(n, d) == (n \div d) + (IF 2 * (n % d) >= d THEN 1 ELSE 0)

\* x && parseFloat((x * ratio).toFixed(4)) || x
scalePrice(x, ratio) ==
    LET scaled == RoundDiv(x * ratio[1], ratio[2])
    IN  IF x # 0 /\ scaled # 0 THEN scaled ELSE x

\* x && Math.round(x / ratio) || x
scaleVolume(x, ratio) ==
    LET scaled == RoundDiv(x * ratio[2], ratio[1])
    IN  IF x # 0 /\ scaled # 0 THEN scaled ELSE x

\* request.fields.some(f => ['a', 'd', 'r'].includes(f))
wantsAdjusted(request) == \E i \in 1..Len(request.fields) : request.fields[i] \in {"a", "d", "r"}

\* The body of the map callback of adjustPricesTransform.
adjustPoint(point) ==
    IF ~Truthy(point, "splitCoefficient") \/ ~Truthy(point, "adjClose")
          \/ ~Truthy(point, "close")
    THEN point
    ELSE LET ratio == IF Truthy(point, "splitCoefficient")
                      THEN Quotient(point.splitCoefficient, PriceScale)
                      ELSE Quotient(point.adjClose, point.close)
         IN  [k \in DOMAIN point |->
                 IF k \in {"open", "high", "low", "close"} THEN scalePrice(point[k], ratio)
                 ELSE IF k = "volume" THEN scaleVolume(point[k], ratio)
                 ELSE point[k]]

adjustPricesTransform(data, request) ==
    IF ~wantsAdjusted(request) THEN data
    ELSE [i \in 1..Len(data) |-> adjustPoint(data[i])]

includes(fields, f) == \E i \in 1..Len(fields) : fields[i] = f

\* One `if (request.fields.includes(letter) && current.x && prev.close)
\* newPoint.x_return = (current.x / prev.close) - 1`.
withReturn(newPoint, request, letter, key, current, prev) ==
    IF includes(request.fields, letter) /\ Truthy(current, key) /\ Truthy(prev, "close")
    THEN ((key \o "_return") :> Quotient(current[key] - prev.close, prev.close)) @@ newPoint
    ELSE newPoint

\* The body of the for loop of calculateReturnsTransform for index i.
returnsPoint(data, request, i) ==
    LET current == data[i]
    IN  IF i > 1 /\ ~("close" \in DOMAIN data[i - 1] /\ data[i - 1].close = 0)
        THEN LET prev == data[i - 1]
                 o == withReturn(current, request, "o", "open", current, prev)
                 h == withReturn(o, request, "h", "high", current, prev)
                 l == withReturn(h, request, "l", "low", current, prev)
             IN  withReturn(l, request, "c", "close", current, prev)
        ELSE current

calculateReturnsTransform(data, request) ==
    IF ~includes(request.fields, "r") THEN data
    ELSE [i \in 1..Len(data) |-> returnsPoint(data, request, i)]

ReturnKeys == {"open_return", "high_return", "low_return", "close_return"}

\* The keys the map callback of mapColumnsTransform assigns, in the order of
\* its statements; a property that is undefined on the point is left out.
projectedKeys(fields, point) ==
    LET wantsReturns == "r" \in fields
        wantsOnlyReturns == wantsReturns /\ ~(\E o \in {"o", "h", "l", "c"} : o \in fields)
    IN  {"ticker", "datetime", "interval"}
        \cup (IF wantsOnlyReturns THEN ReturnKeys \cap DOMAIN point
              ELSE (IF "o" \in fields THEN {"open"} ELSE {})
                   \cup (IF "h" \in fields THEN {"high"} ELSE {})
                   \cup (IF "l" \in fields THEN {"low"} ELSE {})
                   \cup (IF "c" \in fields THEN {"close"} ELSE {})
                   \cup (IF "a" \in fields THEN {"adjClose"} ELSE {}))
        \cup (IF "v" \in fields THEN {"volume"} ELSE {})
        \cup (IF "d" \in fields THEN {"dividendAmount"} ELSE {})
        \cup (IF "s" \in fields THEN {"dividendAmount"} ELSE {})
        \cup (IF wantsReturns
              THEN (IF "o" \in fields THEN {"open_return"} \cap DOMAIN point ELSE {})
                   \cup (IF "h" \in fields THEN {"high_return"} \cap DOMAIN point ELSE {})
                   \cup (IF "l" \in fields THEN {"low_return"} \cap DOMAIN point ELSE {})
                   \cup (IF "c" \in fields THEN {"close_return"} \cap DOMAIN point ELSE {})
              ELSE {})

mapColumnsTransform(data, request) ==
    LET fields == Range(request.fields)
    IN  IF Cardinality(fields) = 0 THEN data
        ELSE [i \in 1..Len(data) |->
                 [k \in projectedKeys(fields, data[i]) \cap DOMAIN data[i] |-> data[i][k]]]

\* The pipeline with its first two steps exchanged.
ReturnsBeforeAdjustment == <<"calculateReturnsTransform", "adjustPricesTransform", "mapColumnsTransform">>

TRANSFORMATION_PIPELINE == <<"adjustPricesTransform", "calculateReturnsTransform", "mapColumnsTransform">>

\* transform(transformedData, request) for one entry of the pipeline.
applyTransform(transform, data, request) ==
    IF transform = "adjustPricesTransform" THEN adjustPricesTransform(data, request)
    ELSE IF transform = "calculateReturnsTransform" THEN calculateReturnsTransform(data, request)
    ELSE mapColumnsTransform(data, request)

RECURSIVE runPipeline(_, _, _)
runPipeline(pipeline, data, request) ==
    IF pipeline = <<>> THEN data
    ELSE runPipeline(Tail(pipeline), applyTransform(Head(pipeline), data, request), request)

applyTransforms(data, request) == runPipeline(TRANSFORMATION_PIPELINE, data, request)

\* ------------------------------------------- AlphaVantageProvider: resampling
\* The time-of-day part of an intraday bar's datetime counts minutes.
minute(datetime) == datetime[2] % 60

formatPeriod(minutes) ==
    IF minutes >= 10080 /\ minutes % 10080 = 0 THEN ToString(minutes \div 10080) \o "w"
    ELSE IF minutes >= 1440 /\ minutes % 1440 = 0 THEN ToString(minutes \div 1440) \o "d"
    ELSE IF minutes >= 60 /\ minutes % 60 = 0 THEN ToString(minutes \div 60) \o "hr"
    ELSE ToString(minutes) \o "min"

\* The bar is aggregated on the basis it came with.
keepSplitBasis(bar, targetSplit) == bar

\* adjustBarToSplit: ratio = targetSplit / bar.splitCoefficient; prices are
\* multiplied by it and the volume divided by it.  The products are formed
\* before the division, which is exact for the coefficients 1.0 and 2.0.
adjustBarToSplit(bar, targetSplit) ==
    IF ~Truthy(bar, "splitCoefficient") \/ bar.splitCoefficient = targetSplit THEN bar
    ELSE [k \in DOMAIN bar |->
             IF k \in {"open", "high", "low", "close"}
             THEN (bar[k] * targetSplit) \div bar.splitCoefficient
             ELSE IF k = "volume" THEN (bar[k] * bar.splitCoefficient) \div targetSplit
             ELSE bar[k]]

MaxOf(numbers) == CHOOSE n \in numbers : \A m \in numbers : m <= n
MinOf(numbers) == CHOOSE n \in numbers : \A m \in numbers : n <= m

\* numbers.reduce((sum, n) => sum + n, 0)
RECURSIVE Sum(_)
Sum(numbers) == IF numbers = <<>> THEN 0 ELSE Head(numbers) + Sum(Tail(numbers))

\* The high of the group's first bar instead of the maximum.
highOfFirst(adjustedGroup) == adjustedGroup[1].high

\* Math.max(...adjustedGroup.map(b => b.high))
highOf(adjustedGroup) == MaxOf({adjustedGroup[i].high : i \in 1..Len(adjustedGroup)})

\* The resampledBar built from a non-empty currentGroup.
resampledBar(currentGroup, targetMinutes) ==
    LET first == currentGroup[1]
        last == currentGroup[Len(currentGroup)]
        lastSplit == IF Truthy(last, "splitCoefficient") THEN last.splitCoefficient
                     ELSE PriceScale
        adjustedGroup == [i \in 1..Len(currentGroup) |->
                             adjustBarToSplit(currentGroup[i], lastSplit)]
        firstAdjusted == adjustedGroup[1]
        dividendOf(b) == IF Truthy(b, "dividendAmount") THEN b.dividendAmount ELSE 0
        optional == {k \in {"adjClose", "splitCoefficient"} : k \in DOMAIN last}
    IN  [k \in optional |-> last[k]]
        @@ [ticker |-> first.ticker,
            interval |-> formatPeriod(targetMinutes),
            datetime |-> last.datetime,
            open |-> firstAdjusted.open,
            high |-> highOf(adjustedGroup),
            low |-> MinOf({adjustedGroup[i].low : i \in 1..Len(adjustedGroup)}),
            close |-> last.close,
            volume |-> Sum([i \in 1..Len(adjustedGroup) |-> adjustedGroup[i].volume]),
            dividendAmount |-> Sum([i \in 1..Len(adjustedGroup) |->
                                       dividendOf(adjustedGroup[i])])]

\* The forEach of resampleData from index `index` on, with the bars grouped
\* so far and the bars output so far.
RECURSIVE resampleFrom(_, _, _, _, _)
resampleFrom(data, index, targetMinutes, currentGroup, resampled) ==
    IF index > Len(data) THEN resampled
    ELSE LET bar == data[index]
             group == Append(currentGroup, bar)
         IN  IF minute(bar.datetime) % targetMinutes = 0 \/ index = Len(data)
             THEN resampleFrom(data, index + 1, targetMinutes, <<>>,
                               Append(resampled, resampledBar(group, targetMinutes)))
             ELSE resampleFrom(data, index + 1, targetMinutes, group, resampled)

resampleData(data, targetMinutes) ==
    IF Len(data) = 0 THEN <<>> ELSE resampleFrom(data, 1, targetMinutes, <<>>, <<>>)

\* getHistory after transformData: a series is resampled when the requested
\* granularity is a multiple of the interval it was fetched at.
resampleIfCoarser(transformedData, granularity) ==
    LET requestedMinutes == parseGranularityToMinutes(granularity)
    IN  IF requestedMinutes # 0 /\ requestedMinutes > baseIntervalMinutes(requestedMinutes)
        THEN resampleData(transformedData, requestedMinutes)
        ELSE transformedData

VARIABLES
    store,        \* rows of table security_bar
    storeBefore,  \* the rows when the current run started
    pc,           \* position of the current run
    request,      \* the ValidatedSecurityRequest of the run
    planned,      \* the run went through the plan block
    api,          \* what the remote service answered during the run
    coverage,     \* the coverage the 'use' branch computed
    cachedData,
    newData,
    finalData,
    written,      \* the data handed to output.write
    ops,          \* the calls the run made to its collaborators, in order
    unadjusted,   \* the --unadjusted flag the run was started with
    now,          \* the clock, in seconds
    rateLimitDelay \* AlphaVantageProvider.rateLimitDelay, in milliseconds

vars == <<store, storeBefore, pc, request, planned, api, coverage, cachedData,
          newData, finalData, written, ops, unadjusted, now, rateLimitDelay>>

NotWritten == <<[none |-> TRUE]>>

Init ==
    /\ store = {}
    /\ storeBefore = {}
    /\ pc = "idle"
    /\ request = NoRequest
    /\ planned = FALSE
    /\ api = NoSeries
    /\ coverage = EmptyMap
    /\ cachedData = <<>>
    /\ newData = <<>>
    /\ finalData = <<>>
    /\ written = NotWritten
    /\ ops = <<>>
    /\ unadjusted = FALSE
    /\ now = 0
    /\ rateLimitDelay = 0

\* A run starts: validation, and the plan block when --plan is given.
StartRun(options) ==
    /\ pc = "idle"
    /\ LET v == validateAndBuildRequest(options)
       IN  /\ request' = v.request
           /\ planned' = (v.ok /\ options.plan)
           /\ ops' = IF v.ok /\ options.plan
                     THEN planOps(store, v.request, options.yes) ELSE <<>>
           /\ pc' = IF ~v.ok THEN "failed"
                    ELSE IF options.plan /\ ~options.yes THEN "prompt"
                    ELSE "ready"
    /\ storeBefore' = store
    /\ api' = NoSeries
    /\ coverage' = EmptyMap
    /\ cachedData' = <<>>
    /\ newData' = <<>>
    /\ finalData' = <<>>
    /\ written' = NotWritten
    /\ unadjusted' = options.unadjusted
    /\ UNCHANGED <<store, now, rateLimitDelay>>

\* The user answers the confirmation prompt.
Confirm(proceed) ==
    /\ pc = "prompt"
    /\ pc' = IF proceed THEN "ready" ELSE "cancelled"
    /\ UNCHANGED <<store, storeBefore, request, planned, api, coverage, cachedData,
                   newData, finalData, written, ops, unadjusted, now, rateLimitDelay>>

\* What a run meets: the service's answer, the answer to the premium
\* warning, the API call that raises (0: none) and the insert after which
\* the store write is interrupted (0: none).
ProviderInputs ==
    {[apiResponse |-> a, proceed |-> TRUE, errAt |-> 0, crashAt |-> c] :
        a \in ApiResponses, c \in {0, 1}}
    \cup {[apiResponse |-> NoSeries, proceed |-> FALSE, errAt |-> 0, crashAt |-> 0]}
    \cup {[apiResponse |-> NoSeries, proceed |-> TRUE, errAt |-> i, crashAt |-> 0] :
             i \in 1..MaxTickers}

\* The catch block is skipped: the run goes on to output.write after a throw.
finishAnyway(r) ==
    [pc |-> "done", written |-> r.finalData, ops |-> <<Op("write", "-")>>]

\* The end of the try block and the catch block: output.write(finalData)
\* when nothing was thrown, logger.error and process.exit(1) otherwise.
finish(r) ==
    IF r.ok
    THEN [pc |-> "done", written |-> r.finalData, ops |-> <<Op("write", "-")>>]
    ELSE [pc |-> "failed", written |-> NotWritten, ops |-> <<>>]

\* The policy branch and output.write; any throw ends the run with exit code 1.
Execute(in) ==
    /\ pc = "ready"
    /\ LET r == runPolicy(store, request, in.apiResponse, in.proceed, in.errAt,
                        in.crashAt)
       IN  /\ store' = r.store
           /\ coverage' = r.coverage
           /\ cachedData' = r.cachedData
           /\ newData' = r.newData
           /\ finalData' = r.finalData
           /\ written' = finish(r).written
           /\ ops' = ops \o r.ops \o finish(r).ops
           /\ pc' = finish(r).pc
           /\ api' = IF \E i \in 1..Len(r.ops) : r.ops[i][1] = "fetch"
                     THEN in.apiResponse ELSE NoSeries
    /\ UNCHANGED <<storeBefore, request, planned, unadjusted, now, rateLimitDelay>>

\* The process ends; only the store outlives it.
Exit ==
    /\ pc \in {"done", "failed", "cancelled"}
    /\ pc' = "idle"
    /\ request' = NoRequest
    /\ planned' = FALSE
    /\ api' = NoSeries
    /\ coverage' = EmptyMap
    /\ cachedData' = <<>>
    /\ newData' = <<>>
    /\ finalData' = <<>>
    /\ written' = NotWritten
    /\ ops' = <<>>
    /\ storeBefore' = store
    /\ unadjusted' = FALSE
    /\ UNCHANGED <<store, now, rateLimitDelay>>

Next ==
    \/ \E options \in Options : StartRun(options)
    \/ \E proceed \in BOOLEAN : Confirm(proceed)
    \/ \E in \in ProviderInputs : Execute(in)
    \/ Exit

Spec == Init /\ [][Next]_vars

\* -------------------------------------------------------------- one run
\* One run of the command over a store an earlier run left behind: a 'use'
\* run for ticker A over every day, the service having published no day,
\* the first day only, or every day.
PublishedBefore == {{}, {1}, Days}

EarlierRequest ==
    [tickers |-> <<"A">>,
     startDate |-> startOfDay(dayjs(<<1>>)),
     endDate |-> endOfDay(dayjs(<<MaxDay>>)),
     granularity |-> "1d",
     fields |-> <<"c", "r">>,
     cachePolicy |-> "use",
     ranges |-> EmptyMap]

StoreLeftBy(days) ==
    runUse({}, EarlierRequest,
           [TimeSeries |-> seriesEntries(MaxDay, days, 100)], TRUE, 0, 0).store

InitRun ==
    /\ store \in {StoreLeftBy(days) : days \in PublishedBefore}
    /\ storeBefore = store
    /\ pc = "idle"
    /\ request = NoRequest
    /\ planned = FALSE
    /\ api = NoSeries
    /\ coverage = EmptyMap
    /\ cachedData = <<>>
    /\ newData = <<>>
    /\ finalData = <<>>
    /\ written = NotWritten
    /\ ops = <<>>
    /\ unadjusted = FALSE
    /\ now = 0
    /\ rateLimitDelay = 0

NextRun ==
    \/ \E options \in Options : StartRun(options)
    \/ \E proceed \in BOOLEAN : Confirm(proceed)
    \/ \E in \in ProviderInputs : Execute(in)

SpecRun == InitRun /\ [][NextRun]_vars

\* ------------------------------------------------------ invalid requests
\* One run of the command with options that hold an empty ticker list, a
\* malformed date token, a start after the end, or the granularity '1x'.
OptionsOrInvalid ==
    [ticker : SeqsUpTo(Tickers, MaxTickers),
     date : [start : DateTokens \cup MalformedDateTokens,
             end : DateTokens \cup MalformedDateTokens],
     granularity : {"1d", "1x"},
     fields : RunSelectors,
     unadjusted : {FALSE},
     cachePolicy : CachePolicies,
     plan : BOOLEAN,
     yes : BOOLEAN]

InvalidOptions ==
    {options \in OptionsOrInvalid :
        \/ Len(options.ticker) = 0
        \/ ~parseDateRange(options.date).ok
        \/ ~getGranularityInfo(options.granularity).ok}

NextInvalid ==
    \/ \E options \in InvalidOptions : StartRun(options)
    \/ \E proceed \in BOOLEAN : Confirm(proceed)
    \/ \E in \in ProviderInputs : Execute(in)

SpecInvalid == InitRun /\ [][NextInvalid]_vars

\* ======================================================== coverage claims
DayOf(t) == t \div TicksPerDay

\* The calendar days of the current request.
RequestDays == DayOf(request.startDate)..DayOf(request.endDate)

\* The store holds a bar of (ticker, interval) whose datetime is on day d.
HoldsBar(db, t, g, d) ==
    \E r \in db : r.ticker = t /\ r.interval = g /\ r.datetime[1] = d

RangesOf(cov, t) == IF t \in DOMAIN cov THEN cov[t] ELSE <<>>

RangesHolding(cov, t, d) ==
    {i \in 1..Len(RangesOf(cov, t)) :
        DayOf(RangesOf(cov, t)[i].startDate) <= d /\ d <= DayOf(RangesOf(cov, t)[i].endDate)}

\* A 'use' run has analysed the coverage of its request against storeBefore.
Analyzed == pc \in {"done", "failed"} /\ request # NoRequest /\ request.cachePolicy = "use"

MissingDay(t, d) ==
    d \in RequestDays /\ ~HoldsBar(storeBefore, t, request.granularity, d)

\* C1: every day of the request lies in exactly one missing range of the
\* ticker when the store holds no bar of (ticker, requested interval) for
\* that day and in none when it does, and no range leaves [startDate, endDate].
C1_CoverageTotality ==
    Analyzed =>
        \A t \in Range(request.tickers) :
            /\ \A d \in RequestDays :
                  Cardinality(RangesHolding(coverage, t, d))
                      = (IF MissingDay(t, d) THEN 1 ELSE 0)
            /\ \A i \in 1..Len(RangesOf(coverage, t)) :
                  /\ DayOf(RangesOf(coverage, t)[i].startDate) \in RequestDays
                  /\ DayOf(RangesOf(coverage, t)[i].endDate) \in RequestDays

\* C2: the missing ranges of a ticker are the maximal runs of consecutive
\* uncached days: non-empty, ascending, pairwise non-overlapping and
\* non-adjacent; a ticker with no missing day has no key in the map.
C2_MaximalMissingRuns ==
    Analyzed =>
        \A t \in Range(request.tickers) :
            LET rs == RangesOf(coverage, t)
                first(i) == DayOf(rs[i].startDate)
                last(i) == DayOf(rs[i].endDate)
            IN  /\ \A i \in 1..Len(rs) :
                      /\ first(i) <= last(i)
                      /\ \A d \in first(i)..last(i) : MissingDay(t, d)
                      /\ ~MissingDay(t, first(i) - 1)
                      /\ ~MissingDay(t, last(i) + 1)
                /\ \A i \in 1..(Len(rs) - 1) : last(i) + 1 < first(i + 1)
                /\ (\A d \in RequestDays : ~MissingDay(t, d)) => t \notin DOMAIN coverage

\* The provider returned a bar for every requested ticker and day.
FetchedEveryDay ==
    \A t \in Range(request.tickers), d \in RequestDays :
        \E i \in 1..Len(newData) : newData[i].ticker = t /\ newData[i].datetime[1] = d

\* C3: after a 'use' run from an empty cache whose provider returned a bar
\* for every day of the range, the bars are persisted and the coverage
\* analysis of the identical request has no missing range for any ticker.
C3_RepeatRequestFullyCovered ==
    (pc = "done" /\ request.cachePolicy = "use" /\ storeBefore = {} /\ FetchedEveryDay)
        => /\ Range(newData) \subseteq store
           /\ analyzeCacheCoverage(store, request) = EmptyMap

\* ========================================================== policy claims
OpNames == {ops[i][1] : i \in 1..Len(ops)}

Positions(name) == {i \in 1..Len(ops) : ops[i][1] = name}

Before(first, second) ==
    \A i \in Positions(first), j \in Positions(second) : i < j

\* The tickers for which the run issued an API call, in call order.
FetchedTickers ==
    LET calls == SelectSeq(ops, LAMBDA o : o[1] = "fetch")
    IN  [i \in 1..Len(calls) |-> calls[i][2]]

\* The bars the store held for the request when the run started.
CachedInRange ==
    {r \in storeBefore :
        /\ r.ticker \in Range(request.tickers)
        /\ r.interval = request.granularity
        /\ r.datetime[1] \in RequestDays}

\* C7: after a 'use' run has merged and persisted, reading the store for the
\* same request with getSecurityData gives the reconciled series.
C7_RereadEqualsReconciled ==
    (pc = "done" /\ request.cachePolicy = "use"
        /\ {"updateSecurityData", "merge"} \subseteq OpNames)
        => getSecurityData(store, request) = [ok |-> TRUE, rows |-> finalData]

\* C8: a 'use' run analyses coverage, reads the cache for the tickers with no
\* missing range, fetches exactly the tickers with a missing range, persists
\* and merges, in this order; with every ticker fully covered the provider
\* is not called and the final series is the cached bars.
C8_UsePolicySequence ==
    (pc = "done" /\ request.cachePolicy = "use") =>
        LET missing == {t \in Range(request.tickers) :
                           \E d \in RequestDays : MissingDay(t, d)}
        IN  /\ "analyzeCacheCoverage" \in OpNames
            /\ Before("analyzeCacheCoverage", "getSecurityData")
            /\ Before("getSecurityData", "fetch")
            /\ Before("fetch", "updateSecurityData")
            /\ Before("updateSecurityData", "merge")
            /\ Range(request.tickers) \ missing # {} => "getSecurityData" \in OpNames
            /\ Range(FetchedTickers) = missing
            /\ missing = {} => Range(finalData) = CachedInRange

\* C9: a run with policy 'ignore' makes no store read and no store write,
\* with or without --plan, and leaves the store as it found it.
C9_IgnoreNeverTouchesStore ==
    (request # NoRequest /\ request.cachePolicy = "ignore") =>
        /\ OpNames \cap {"analyzeCacheCoverage", "getSecurityData", "updateSecurityData"} = {}
        /\ store = storeBefore

\* C10: under 'ignore' and 'refresh' the provider is called for every
\* requested ticker and the final series holds its bars for each of them.
C10_FullFetchForEveryTicker ==
    (pc = "done" /\ request.cachePolicy \in {"ignore", "refresh"}) =>
        /\ FetchedTickers = request.tickers
        /\ finalData = Concat([i \in 1..Len(request.tickers) |->
                           transformData(api, request.tickers[i], request.granularity)])

Upserted(db, bars) ==
    {r \in db : \A i \in 1..Len(bars) : PrimaryKey(bars[i]) # PrimaryKey(r)}
    \cup {bars[i] : i \in {j \in 1..Len(bars) :
                              \A k \in (j + 1)..Len(bars) :
                                  PrimaryKey(bars[k]) # PrimaryKey(bars[j])}}

\* C19: after any run, also one whose write was interrupted or whose
\* provider failed part-way, the store is either as the run found it or
\* that state with all fetched bars upserted.
C19_AtomicBatch ==
    pc \in {"done", "failed", "cancelled"} =>
        \/ store = storeBefore
        \/ store = Upserted(storeBefore, newData)

\* The write of a batch of two or more bars was interrupted after its first
\* insert and the store, which held bars, is as the run found it.
C19_Witness ==
    /\ pc = "failed"
    /\ ops # <<>>
    /\ ops[Len(ops)] = Op("raise", "store")
    /\ "updateSecurityData" \in OpNames
    /\ Len(newData) >= 2
    /\ storeBefore # {}
    /\ store = storeBefore

\* C20: a run in which the provider or the store raised ends in the failed
\* state without the writer having been invoked, and the raise is the last
\* call of the run: no call is repeated or made after it.
C20_RaiseIsFatal ==
    "raise" \in OpNames =>
        /\ pc = "failed"
        /\ written = NotWritten
        /\ "write" \notin OpNames
        /\ Positions("raise") = {Len(ops)}
        /\ \A name \in {"getHistory", "getSecurityData", "updateSecurityData"} :
              Cardinality(Positions(name)) <= 1
        /\ Len(FetchedTickers) <= Len(request.tickers)

\* The provider raised on its second ticker, after a fetch that succeeded.
C20_Witness ==
    /\ pc = "failed"
    /\ ops # <<>>
    /\ ops[Len(ops)] = Op("raise", "provider")
    /\ Len(FetchedTickers) >= 2

\* ====================================================== final series claims
\* C28: every bar a 'use' run hands to the output has a requested ticker,
\* the requested granularity as its interval and a datetime within
\* [startDate, endDate].
C28_FinalSeriesWithinRequest ==
    (pc = "done" /\ request.cachePolicy = "use") =>
        \A i \in 1..Len(written) :
            /\ written[i].ticker \in Range(request.tickers)
            /\ written[i].interval = request.granularity
            /\ request.startDate <= dayjs(written[i].datetime)
            /\ dayjs(written[i].datetime) <= request.endDate

\* The primary keys of the bars of ticker t among the given bars.
KeysOf(bars, t) == {PrimaryKey(r) : r \in {q \in bars : q.ticker = t}}

\* The store holds bars of the ticker for some days of the request and
\* none for others.
PartiallyCovered(t) ==
    /\ KeysOf(CachedInRange, t) # {}
    /\ \E d \in RequestDays : MissingDay(t, d)

\* C29: for a requested ticker the cache covers partially, the keys of the
\* final series of a 'use' run are the keys of the cached bars in range
\* together with the keys of the fetched bars: no cached day is lost because
\* another day was missing.
C29_FinalSeriesKeepsCachedBars ==
    (pc = "done" /\ request.cachePolicy = "use") =>
        \A t \in Range(request.tickers) :
            PartiallyCovered(t) =>
                KeysOf(Range(finalData), t)
                    = KeysOf(CachedInRange, t) \cup KeysOf(Range(newData), t)

\* ====================================================== validation claims
\* The run was started with options that are not a valid request.
InvalidRequest ==
    /\ pc # "idle"
    /\ \/ request = NoRequest
       \/ ~getGranularityInfo(request.granularity).ok

\* C21: a run with an empty ticker list, a malformed date token, a start
\* after the end or a malformed granularity makes no store query, no store
\* write and no API call, and when it has ended it has failed.
C21_ValidationPrecedesIO ==
    InvalidRequest =>
        /\ OpNames \cap {"analyzeCacheCoverage", "getSecurityData",
                         "updateSecurityData", "fetch"} = {}
        /\ pc \notin {"done", "cancelled"}

\* ============================================================ plan claims
\* The calls that execute a plan: provider data calls, store writes, output.
ExecutionOps == {"getHistory", "fetch", "updateSecurityData", "write"}

\* A --plan run that has planned and not executed, or was declined.
PlannedNotExecuted == planned /\ pc \in {"prompt", "ready", "cancelled"}

\* C22: the planning phase of a --plan run makes no provider data call and
\* no store write; a run without -y waits at the prompt, from which it goes
\* on to execute or ends, the state untouched; a declined run never goes on:
\* it has made no provider data call, no store write and no output.
C22_PlanMode ==
    /\ [](PlannedNotExecuted =>
            /\ OpNames \cap ExecutionOps = {}
            /\ store = storeBefore
            /\ written = NotWritten)
    /\ [][(pc = "idle" /\ planned' /\ "prompt" \in OpNames') => pc' = "prompt"]_vars
    /\ [][pc = "prompt" =>
            /\ pc' \in {"ready", "cancelled"}
            /\ UNCHANGED <<store, ops, written>>]_vars
    /\ [][pc = "cancelled" => pc' = "idle"]_vars

\* The user declined the plan of a run over a store that holds bars of the
\* requested range and misses others.
C22_Witness ==
    /\ pc = "cancelled"
    /\ planned
    /\ "planFetch" \in OpNames
    /\ CachedInRange # {}

\* ============================================================== reconcile
\* The merge of the 'use' branch applied to every pair of bounded inputs:
\* cached bars carry the stale close, fetched bars the republished one.
StaleClose == {c \in Closes : \A d \in Closes : c <= d}
FreshClose == Closes \ StaleClose

BarsWith(closes) ==
    {Bar(t, g, <<d, 0>>, c) : t \in Tickers, g \in Granularities, d \in Days, c \in closes}

InitReconcile ==
    /\ pc = "inputs"
    /\ cachedData \in SeqsUpTo(BarsWith(StaleClose), MaxBars)
    /\ newData \in SeqsUpTo(BarsWith(FreshClose), MaxBars)
    /\ finalData = <<>>
    /\ store = {}
    /\ storeBefore = {}
    /\ request = NoRequest
    /\ planned = FALSE
    /\ api = NoSeries
    /\ coverage = EmptyMap
    /\ written = NotWritten
    /\ ops = <<>>
    /\ unadjusted = FALSE
    /\ now = 0
    /\ rateLimitDelay = 0

Reconcile ==
    /\ pc = "inputs"
    /\ finalData' = reconcile(cachedData, newData)
    /\ pc' = "merged"
    /\ UNCHANGED <<store, storeBefore, request, planned, api, coverage, cachedData,
                   newData, written, ops, unadjusted, now, rateLimitDelay>>

SpecReconcile == InitReconcile /\ [][Reconcile]_vars

Keys(bars) == {PrimaryKey(bars[i]) : i \in 1..Len(bars)}

\* C4: a key shared by a cached and a fetched bar carries, in the merged
\* series, the field values of the fetched bar.
C4_FreshWinsOnCollision ==
    pc = "merged" =>
        \A k \in Keys(cachedData) \cap Keys(newData) :
            \A i \in 1..Len(finalData) :
                PrimaryKey(finalData[i]) = k => finalData[i] \in Range(newData)

\* C5: the merged series holds exactly one bar for each key of either input,
\* no other key, and is ascending by datetime.
C5_MergedDedupedAndSorted ==
    pc = "merged" =>
        /\ Keys(finalData) = Keys(cachedData) \cup Keys(newData)
        /\ \A i, j \in 1..Len(finalData) :
              PrimaryKey(finalData[i]) = PrimaryKey(finalData[j]) => i = j
        /\ \A i \in 1..(Len(finalData) - 1) :
              StrLE(finalData[i].datetime, finalData[i + 1].datetime)

\* A merge that had to drop a duplicate key and to reorder its input.
C5_Witness ==
    /\ pc = "merged"
    /\ Keys(cachedData) \cap Keys(newData) # {}
    /\ Len(finalData) >= 2
    /\ \E i \in 1..(Len(cachedData \o newData) - 1) :
          StrLT((cachedData \o newData)[i + 1].datetime, (cachedData \o newData)[i].datetime)

\* ================================================================= upsert
\* updateSecurityData applied to every bounded sequence of calls: newData is
\* the argument of the latest call and storeBefore the store it met.
UpsertBars == {Bar("A", g, <<d, 0>>, c) : g \in Granularities, d \in Days, c \in Closes}

InitStore ==
    /\ pc = "store"
    /\ store = {}
    /\ storeBefore = {}
    /\ newData = <<>>
    /\ cachedData = <<>>
    /\ finalData = <<>>
    /\ request = NoRequest
    /\ planned = FALSE
    /\ api = NoSeries
    /\ coverage = EmptyMap
    /\ written = NotWritten
    /\ ops = <<>>
    /\ unadjusted = FALSE
    /\ now = 0
    /\ rateLimitDelay = 0

Update(dataPoints) ==
    /\ pc \in {"store", "upserted"}
    /\ store' = updateSecurityData(store, dataPoints)
    /\ storeBefore' = store
    /\ newData' = dataPoints
    /\ pc' = "upserted"
    /\ UNCHANGED <<request, planned, api, coverage, cachedData, finalData, written, ops,
                   unadjusted, now, rateLimitDelay>>

NextStore == \E dataPoints \in SeqsUpTo(UpsertBars, MaxBars) : Update(dataPoints)

SpecStore == InitStore /\ [][NextStore]_vars

\* The last bar of the call that carries key k.
LastWritten(points, k) ==
    points[CHOOSE i \in 1..Len(points) :
              /\ PrimaryKey(points[i]) = k
              /\ \A j \in (i + 1)..Len(points) : PrimaryKey(points[j]) # k]

\* C6: after any sequence of calls the store holds at most one bar per key,
\* each key written by the latest call carries that call's values, every
\* other bar is as it was, no key is removed, and a call whose bars are all
\* stored already leaves the store unchanged.
C6_UpsertByKey ==
    pc = "upserted" =>
        /\ \A r, q \in store : PrimaryKey(r) = PrimaryKey(q) => r = q
        /\ \A k \in Keys(newData) : LastWritten(newData, k) \in store
        /\ \A r \in storeBefore : PrimaryKey(r) \notin Keys(newData) => r \in store
        /\ \A r \in store : PrimaryKey(r) \in Keys(newData) \/ r \in storeBefore
        /\ {PrimaryKey(r) : r \in storeBefore} \subseteq {PrimaryKey(r) : r \in store}
        /\ Range(newData) \subseteq storeBefore => store = storeBefore

\* A call replaced the values of a stored key.
C6_Witness ==
    /\ pc = "upserted"
    /\ \E r \in storeBefore, i \in 1..Len(newData) :
          PrimaryKey(newData[i]) = PrimaryKey(r) /\ newData[i].close # r.close

\* ============================================================== transform
\* applyTransforms applied to every bounded final series and request.
MaxSeries == 3

\* Closes in whole currency units.
SeriesCloses == {9, 10, 11}

Price(units) == units * PriceScale

\* A bar of the plain endpoint: open, high, low, close and volume only.
PlainBar(i, c) ==
    [ticker |-> "A", interval |-> "1d", datetime |-> <<i, 0>>,
     open |-> Price(c - 1), high |-> Price(c + 1), low |-> Price(c - 2),
     close |-> Price(c), volume |-> 1000]

\* A bar of the adjusted endpoint: adjClose, dividendAmount and the split
\* coefficient of its day, 1.0 on an ordinary day and 0.5 on the day of a
\* 1:2 reverse split.
AdjustedBar(i, c, isSplitDay) ==
    [ticker |-> "A", interval |-> "1d", datetime |-> <<i, 0>>,
     open |-> Price(c - 1), high |-> Price(c + 1), low |-> Price(c - 2),
     close |-> Price(c), volume |-> 1000,
     adjClose |-> IF isSplitDay THEN Price(c) \div 2 ELSE Price(c),
     splitCoefficient |-> IF isSplitDay THEN PriceScale \div 2 ELSE PriceScale,
     dividendAmount |-> 0]

PlainSeries(closes) == [i \in 1..Len(closes) |-> PlainBar(i, closes[i])]

\* splitAt is the position of the split day, 0 when the series has none.
AdjustedSeries(closes, splitAt) ==
    [i \in 1..Len(closes) |-> AdjustedBar(i, closes[i], i = splitAt)]

FinalSeries ==
    {PlainSeries(closes) : closes \in SeqsUpTo(SeriesCloses, MaxSeries)}
    \cup UNION {{AdjustedSeries(closes, splitAt) : splitAt \in 0..Len(closes)} :
                   closes \in SeqsUpTo(SeriesCloses, MaxSeries)}

\* A selector string holds each letter at most once, in the order of FieldLetters.
RECURSIVE SelectorOf(_)
SelectorOf(letters) ==
    IF letters = {} THEN <<>>
    ELSE LET order == <<"o", "h", "l", "c", "v", "a", "d", "s", "r">>
             first == order[CHOOSE i \in 1..Len(order) :
                               /\ order[i] \in letters
                               /\ \A j \in 1..(i - 1) : order[j] \notin letters]
         IN  <<first>> \o SelectorOf(letters \ {first})

Selectors == {SelectorOf(letters) : letters \in SUBSET FieldLetters}

TransformOptions ==
    [ticker : {<<"A">>},
     date : [start : {<<1>>}, end : {<<MaxDay>>}],
     granularity : Granularities,
     fields : Selectors,
     unadjusted : BOOLEAN,
     cachePolicy : {"use"},
     plan : {FALSE},
     yes : {FALSE}]

InitTransform ==
    /\ pc = "final"
    /\ \E options \in TransformOptions :
          /\ request = validateAndBuildRequest(options).request
          /\ unadjusted = options.unadjusted
    /\ finalData \in FinalSeries
    /\ written = NotWritten
    /\ store = {}
    /\ storeBefore = {}
    /\ planned = FALSE
    /\ api = NoSeries
    /\ coverage = EmptyMap
    /\ cachedData = <<>>
    /\ newData = <<>>
    /\ ops = <<>>
    /\ now = 0
    /\ rateLimitDelay = 0

Transform ==
    /\ pc = "final"
    /\ written' = applyTransforms(finalData, request)
    /\ pc' = "transformed"
    /\ UNCHANGED <<store, storeBefore, request, planned, api, coverage, cachedData,
                   newData, finalData, ops, unadjusted, now, rateLimitDelay>>

SpecTransform == InitTransform /\ [][Transform]_vars

\* ------------------------------------------------------- pipeline claims
PriceKeys == {"open", "high", "low", "close"}

Selected == Range(request.fields)

\* A price of the bar on the adjusted basis: scaled by the split coefficient
\* when the bar carries one.
AdjustedPrice(bar, key) ==
    IF "splitCoefficient" \in DOMAIN bar
    THEN (bar[key] * bar.splitCoefficient) \div PriceScale
    ELSE bar[key]

\* field[i] / close[i-1] - 1 on adjusted prices.
AdjustedReturn(series, i, key) ==
    Quotient(AdjustedPrice(series[i], key) - AdjustedPrice(series[i - 1], "close"),
             AdjustedPrice(series[i - 1], "close"))

\* C12: in every run that reaches the output writer, the records handed to
\* output.write are applyTransforms of the final reconciled series.
C12_WriterReceivesTransformed ==
    pc = "done" => written = applyTransforms(finalData, request)

\* C13: adjustment, returns and projection are applied once each in this
\* order: every return in the output is computed from the adjusted prices of
\* its bar and of the bar before it, and with returns requested every price
\* in the output is the adjusted one (scaled once).
C13_ReturnsUseAdjustedPrices ==
    pc = "transformed" =>
        /\ Len(written) = Len(finalData)
        /\ \A i \in 1..Len(written), key \in PriceKeys :
              /\ (key \o "_return") \in DOMAIN written[i] =>
                    /\ i > 1
                    /\ written[i][key \o "_return"] = AdjustedReturn(finalData, i, key)
              /\ (key \in DOMAIN written[i] /\ "r" \in Selected) =>
                    written[i][key] = AdjustedPrice(finalData[i], key)

\* A return was computed across a split day: the bar with split coefficient
\* 0.5 was scaled to half its close before the return against the bar before.
C13_Witness ==
    /\ pc = "transformed"
    /\ \E i \in 2..Len(written) :
          /\ "splitCoefficient" \in DOMAIN finalData[i]
          /\ finalData[i].splitCoefficient = PriceScale \div 2
          /\ {"close", "close_return"} \subseteq DOMAIN written[i]
          /\ written[i].close = finalData[i].close \div 2

\* C14: with a selector of 'r' and none of o/h/l/c no record has an
\* open/high/low/close key, the first record has no close_return and every
\* later record has close_return = close[i] / close[i-1] - 1 (1/10 and -2/11
\* for the closes 10, 11, 9).
C14_ReturnsOnlyProjection ==
    (pc = "transformed" /\ "r" \in Selected /\ Selected \cap {"o", "h", "l", "c"} = {}) =>
        \A i \in 1..Len(written) :
            /\ DOMAIN written[i] \cap PriceKeys = {}
            /\ i = 1 => "close_return" \notin DOMAIN written[i]
            /\ i > 1 => /\ "close_return" \in DOMAIN written[i]
                        /\ written[i].close_return = AdjustedReturn(finalData, i, "close")

\* The field a selector letter names.
FieldOf(letter) ==
    CASE letter = "o" -> {"open"}
      [] letter = "h" -> {"high"}
      [] letter = "l" -> {"low"}
      [] letter = "c" -> {"close"}
      [] letter = "v" -> {"volume"}
      [] letter = "a" -> {"adjClose"}
      [] letter = "d" -> {"dividendAmount"}
      [] letter = "s" -> {"splitCoefficient"}
      [] letter = "r" -> ReturnKeys

\* C15: every output record has the keys ticker, datetime, interval, no key
\* the selector does not name, and every named field the bar carries.
C15_ProjectionExact ==
    pc = "transformed" =>
        \A i \in 1..Len(written) :
            LET named == UNION {FieldOf(letter) : letter \in Selected}
                keys == DOMAIN written[i]
            IN  /\ {"ticker", "datetime", "interval"} \subseteq keys
                /\ keys \subseteq {"ticker", "datetime", "interval"} \cup named
                /\ (named \ ReturnKeys) \cap DOMAIN finalData[i] \subseteq keys

\* C16: with --unadjusted, or with a selector that has none of a, d, r, the
\* adjustment step returns every bar as it was and the output carries the
\* unchanged open, high, low, close and volume; otherwise a bar with a split
\* coefficient is put on the adjusted basis.
C16_AdjustmentSkipped ==
    pc = "transformed" =>
        IF unadjusted \/ Selected \cap {"a", "d", "r"} = {}
        THEN /\ adjustPricesTransform(finalData, request) = finalData
             /\ \A i \in 1..Len(written) :
                   \A key \in (PriceKeys \cup {"volume"}) \cap DOMAIN written[i] :
                       written[i][key] = finalData[i][key]
        ELSE \A i \in 1..Len(written) : \A key \in PriceKeys \cap DOMAIN written[i] :
                 written[i][key] = AdjustedPrice(finalData[i], key)

\* =============================================================== resample
\* resampleData applied to every bounded series of bars at the interval the
\* requested granularity is fetched at: 1 minute for '2min' and '3min', 60
\* minutes for '2h'.
IntradayGranularities == {"2min", "3min", "2h"}

\* The first minute of a fetched series.
StartMinutes == {0, 1}

\* A 1-minute bar: level sets its prices and volume; the dividend and the
\* split coefficient (1.0 or 2.0) are optional, coefficient 0 standing for
\* a bar without one.
MinuteBar(level, dividend, coefficient) ==
    [k \in (IF dividend THEN {"dividendAmount"} ELSE {})
           \cup (IF coefficient > 0 THEN {"splitCoefficient"} ELSE {}) |->
        IF k = "dividendAmount" THEN PriceScale ELSE coefficient * PriceScale]
    @@ [ticker |-> "A", interval |-> "1min",
        open |-> Price(2 * level), high |-> Price(2 * level + 2),
        low |-> Price(2 * level - 1), close |-> Price(6 - 2 * level),
        volume |-> 100 * level]

MinuteBars ==
    {MinuteBar(level, dividend, coefficient) :
        level \in {1, 2}, dividend \in BOOLEAN, coefficient \in {0, 1, 2}}

\* Bars at consecutive multiples of the native interval from `start`.
MinuteSeries(bars, start, native) ==
    [i \in 1..Len(bars) |-> [datetime |-> <<1, start + (i - 1) * native>>] @@ bars[i]]

NativeInterval(granularity) == baseIntervalMinutes(parseGranularityToMinutes(granularity))

InitResample ==
    /\ pc = "fetched"
    /\ \E bars \in SeqsUpTo(MinuteBars, MaxSeries), start \in StartMinutes,
          granularity \in IntradayGranularities :
          /\ request = [tickers |-> <<"A">>, granularity |-> granularity]
          /\ newData = MinuteSeries(bars, start, NativeInterval(granularity))
    /\ finalData = <<>>
    /\ written = NotWritten
    /\ store = {}
    /\ storeBefore = {}
    /\ planned = FALSE
    /\ api = NoSeries
    /\ coverage = EmptyMap
    /\ cachedData = <<>>
    /\ ops = <<>>
    /\ unadjusted = FALSE
    /\ now = 0
    /\ rateLimitDelay = 0

Resample ==
    /\ pc = "fetched"
    /\ finalData' = resampleIfCoarser(newData, request.granularity)
    /\ pc' = "resampled"
    /\ UNCHANGED <<store, storeBefore, request, planned, api, coverage, cachedData,
                   newData, written, ops, unadjusted, now, rateLimitDelay>>

SpecResample == InitResample /\ [][Resample]_vars

\* The positions of the input bars the j-th output bar aggregates: those
\* after the previous output bar's datetime up to its own.
GroupOf(j) ==
    {i \in 1..Len(newData) :
        /\ StrLE(newData[i].datetime, finalData[j].datetime)
        /\ j > 1 => StrLT(finalData[j - 1].datetime, newData[i].datetime)}

\* The split coefficient of a bar, 1.0 when it carries none.
SplitOf(bar) == IF "splitCoefficient" \in DOMAIN bar THEN bar.splitCoefficient ELSE PriceScale

NoSplitBoundary(positions) ==
    \A a, b \in positions : SplitOf(newData[a]) = SplitOf(newData[b])

DividendOf(bar) == IF "dividendAmount" \in DOMAIN bar THEN bar.dividendAmount ELSE 0

\* The sum of values[i] over the given positions.
RECURSIVE SumAt(_, _)
SumAt(values, positions) ==
    IF positions = {} THEN 0
    ELSE LET i == CHOOSE p \in positions : TRUE
         IN  values[i] + SumAt(values, positions \ {i})

\* C17: an output bar of a group without a split boundary has the first
\* bar's open, the last bar's close, the maximum high, the minimum low, the
\* sum of the volumes and the sum of the dividends; over an input without
\* splits the output volumes sum to the input volumes.
C17_ResampleAggregation ==
    pc = "resampled" =>
        LET volumeIn == [i \in 1..Len(newData) |-> newData[i].volume]
            dividendIn == [i \in 1..Len(newData) |-> DividendOf(newData[i])]
            volumeOut == [j \in 1..Len(finalData) |-> finalData[j].volume]
        IN  /\ \A j \in 1..Len(finalData) :
                  LET group == GroupOf(j)
                  IN  (group # {} /\ NoSplitBoundary(group)) =>
                          /\ finalData[j].open = newData[MinOf(group)].open
                          /\ finalData[j].close = newData[MaxOf(group)].close
                          /\ \A i \in group : newData[i].high <= finalData[j].high
                          /\ \E i \in group : newData[i].high = finalData[j].high
                          /\ \A i \in group : finalData[j].low <= newData[i].low
                          /\ \E i \in group : newData[i].low = finalData[j].low
                          /\ finalData[j].volume = SumAt(volumeIn, group)
                          /\ finalData[j].dividendAmount = SumAt(dividendIn, group)
            /\ NoSplitBoundary(1..Len(newData)) =>
                  SumAt(volumeOut, 1..Len(finalData)) = SumAt(volumeIn, 1..Len(newData))

\* Three bars without a split were aggregated into one bar; the highest high
\* is not the first bar's and a dividend was paid in the group.
C17_Witness ==
    /\ pc = "resampled"
    /\ \E j \in 1..Len(finalData) :
          /\ Cardinality(GroupOf(j)) = 3
          /\ NoSplitBoundary(GroupOf(j))
          /\ finalData[j].high > newData[MinOf(GroupOf(j))].high
          /\ finalData[j].dividendAmount > 0

\* C25: on a gap-free series at the native interval, every output bar but
\* the first and the last aggregates targetMinutes / native input bars, also
\* for a target of more than 60 minutes.
C25_GroupSpansTarget ==
    pc = "resampled" =>
        LET targetMinutes == parseGranularityToMinutes(request.granularity)
            native == NativeInterval(request.granularity)
        IN  (targetMinutes > native /\ targetMinutes % native = 0) =>
                \A j \in 2..(Len(finalData) - 1) :
                    Cardinality(GroupOf(j)) = targetMinutes \div native

\* targetSplit / sourceSplit for a bar that carries a coefficient; a bar
\* without one has no basis to convert from.
BasisRatio(bar, targetSplit) ==
    IF "splitCoefficient" \in DOMAIN bar THEN Quotient(targetSplit, bar.splitCoefficient)
    ELSE <<1, 1>>

\* The value multiplied by the ratio, and divided by it.
Times(value, ratio) == (value * ratio[1]) \div ratio[2]
Over(value, ratio) == (value * ratio[2]) \div ratio[1]

\* C26: the output bar of a group is built from its bars rescaled to the
\* split coefficient of the group's last bar: the open is the first bar's
\* rescaled open, the high and low the extremes of the rescaled highs and
\* lows, the volume the sum of the rescaled volumes, the close the last
\* bar's close; a bar already on that basis enters with ratio 1.
C26_SplitReconciliation ==
    pc = "resampled" =>
        \A j \in 1..Len(finalData) :
            LET group == GroupOf(j)
                targetSplit == SplitOf(newData[MaxOf(group)])
                ratio(i) == BasisRatio(newData[i], targetSplit)
                volumes == [i \in 1..Len(newData) |-> Over(newData[i].volume, ratio(i))]
            IN  group # {} =>
                    /\ finalData[j].open
                          = Times(newData[MinOf(group)].open, ratio(MinOf(group)))
                    /\ finalData[j].high
                          = MaxOf({Times(newData[i].high, ratio(i)) : i \in group})
                    /\ finalData[j].low
                          = MinOf({Times(newData[i].low, ratio(i)) : i \in group})
                    /\ finalData[j].close = newData[MaxOf(group)].close
                    /\ finalData[j].volume = SumAt(volumes, group)

\* A group of three bars with a split between its first and its last bar:
\* the output's high is a rescaled high that no bar of the group carries.
C26_Witness ==
    /\ pc = "resampled"
    /\ \E j \in 1..Len(finalData) :
          LET group == GroupOf(j)
          IN  /\ Cardinality(group) = 3
              /\ \A i \in group : "splitCoefficient" \in DOMAIN newData[i]
              /\ newData[MinOf(group)].splitCoefficient
                    # newData[MaxOf(group)].splitCoefficient
              /\ \A i \in group : newData[i].high # finalData[j].high

\* ============================================================ rate limit
\* getHistory step by step: every await is a position of its own, and the
\* clock runs between the steps.
MaxNow == 4

\* providers.alphavantage.rateLimitPerMinute of the configuration.
RateLimits == {0, 30, 60}

\* rateLimitPerMinute > 0 ? 60 / rateLimitPerMinute : 0, a delay a
\* thousand times too short.
rateLimitDelayInSeconds(rateLimitPerMinute) ==
    IF rateLimitPerMinute > 0 THEN 60 \div rateLimitPerMinute ELSE 0

\* The constructor: rateLimitPerMinute > 0 ? (60 * 1000) / rateLimitPerMinute : 0
rateLimitDelayOf(rateLimitPerMinute) ==
    IF rateLimitPerMinute > 0 THEN (60 * 1000) \div rateLimitPerMinute ELSE 0

nowMs == now * 1000

TimedOp(name, arg) == <<name, arg, nowMs>>

\* The tickers the loop iterates over, and how many calls it has issued.
fetchList == tickersToFetch(request)
issued == Cardinality({i \in 1..Len(ops) : ops[i][1] = "issue"})

\* A request as the 'use' branch passes it on: ranges for some of its tickers.
FetchRequests ==
    {[tickers |-> tickers, granularity |-> "1d",
      ranges |-> [t \in missing |-> <<[startDate |-> 0, endDate |-> 0]>>]] :
        tickers \in SeqsUpTo(Tickers, MaxTickers), missing \in SUBSET Tickers}

\* What the service answers to a call: no series, or a bar for every day.
FetchResponses == {NoSeries, [TimeSeries |-> seriesEntries(MaxDay, Days, MinOf(Closes))]}

\* The provider is constructed (the configured rate is logged) and
\* getHistory is entered.
InitFetch ==
    /\ pc = "warning"
    /\ request \in FetchRequests
    /\ \E rateLimitPerMinute \in RateLimits :
          /\ rateLimitDelay = rateLimitDelayOf(rateLimitPerMinute)
          /\ ops = <<<<"config", rateLimitPerMinute, 0>>>>
    /\ now = 0
    /\ newData = <<>>
    /\ finalData = <<>>
    /\ written = NotWritten
    /\ store = {}
    /\ storeBefore = {}
    /\ planned = FALSE
    /\ api = NoSeries
    /\ coverage = EmptyMap
    /\ cachedData = <<>>
    /\ unadjusted = FALSE

\* The premium warning: skipped with a premium key, otherwise the user
\* confirms or the call throws.
PremiumWarning(isPremium, proceed) ==
    /\ pc = "warning"
    /\ pc' = IF isPremium \/ proceed THEN "loop" ELSE "failed"
    /\ UNCHANGED <<store, storeBefore, request, planned, api, coverage, cachedData,
                   newData, finalData, written, ops, unadjusted, now, rateLimitDelay>>

\* Top of the loop body for the next ticker: `await delay(rateLimitDelay)`
\* unless this is the first call or no delay is configured.
StartDelay ==
    /\ pc = "loop"
    /\ issued < Len(fetchList)
    /\ issued > 0 /\ rateLimitDelay > 0
    /\ ops' = Append(ops, <<"delay", nowMs + rateLimitDelay, nowMs>>)
    /\ pc' = "delaying"
    /\ UNCHANGED <<store, storeBefore, request, planned, api, coverage, cachedData,
                   newData, finalData, written, unadjusted, now, rateLimitDelay>>

\* axios.get is issued: at once when there is no delay to await, otherwise
\* when the timer has fired (never before its time).
IssueCall ==
    /\ \/ pc = "loop" /\ issued < Len(fetchList) /\ ~(issued > 0 /\ rateLimitDelay > 0)
       \/ pc = "delaying" /\ nowMs >= ops[Len(ops)][2]
    /\ ops' = Append(ops, TimedOp("issue", fetchList[issued + 1]))
    /\ pc' = "calling"
    /\ UNCHANGED <<store, storeBefore, request, planned, api, coverage, cachedData,
                   newData, finalData, written, unadjusted, now, rateLimitDelay>>

\* The response arrives: an error body throws, otherwise its bars are added
\* to allData and the loop goes on.
CompleteCall(apiResponse, isError) ==
    /\ pc = "calling"
    /\ ops' = Append(ops, TimedOp("complete", fetchList[issued]))
    /\ pc' = IF isError THEN "failed" ELSE "loop"
    /\ newData' = IF isError THEN newData
                  ELSE newData \o transformData(apiResponse, fetchList[issued],
                                                request.granularity)
    /\ UNCHANGED <<store, storeBefore, request, planned, api, coverage, cachedData,
                   finalData, written, unadjusted, now, rateLimitDelay>>

\* The loop is over: return allData.
ReturnData ==
    /\ pc = "loop"
    /\ issued = Len(fetchList)
    /\ pc' = "returned"
    /\ UNCHANGED <<store, storeBefore, request, planned, api, coverage, cachedData,
                   newData, finalData, written, ops, unadjusted, now, rateLimitDelay>>

\* A second passes.
Tick ==
    /\ pc \in {"warning", "loop", "delaying", "calling"}
    /\ now < MaxNow
    /\ now' = now + 1
    /\ UNCHANGED <<store, storeBefore, pc, request, planned, api, coverage, cachedData,
                   newData, finalData, written, ops, unadjusted, rateLimitDelay>>

NextFetch ==
    \/ \E isPremium \in BOOLEAN, proceed \in BOOLEAN : PremiumWarning(isPremium, proceed)
    \/ StartDelay
    \/ IssueCall
    \/ \E apiResponse \in FetchResponses, isError \in BOOLEAN :
          CompleteCall(apiResponse, isError)
    \/ ReturnData
    \/ Tick

SpecFetch == InitFetch /\ [][NextFetch]_vars

\* The positions of the log entries with the given name, in order.
NthPosition(name, n) ==
    CHOOSE i \in Positions(name) :
        Cardinality({j \in Positions(name) : j < i}) = n - 1

Count(name) == Cardinality(Positions(name))

\* C18: at most one call is in flight; the calls are issued for the tickers
\* one at a time in request order, each after the one before has completed
\* and after the minimum delay 60 s / rateLimitPerMinute has passed since
\* then; no delay precedes the first call.
C18_SerializedRateLimitedCalls ==
    (ops # <<>> /\ ops[1][1] = "config") =>
        LET rateLimitPerMinute == ops[1][2]
        IN  /\ Count("issue") - Count("complete") \in {0, 1}
            /\ (Count("issue") - Count("complete") = 1) <=> (pc = "calling")
            /\ \A n \in 1..Count("issue") :
                  ops[NthPosition("issue", n)][2] = fetchList[n]
            /\ \A n \in 2..Count("issue") :
                  /\ NthPosition("complete", n - 1) < NthPosition("issue", n)
                  /\ rateLimitPerMinute > 0 =>
                        (ops[NthPosition("issue", n)][3]
                            - ops[NthPosition("complete", n - 1)][3]) * rateLimitPerMinute
                        >= 60 * 1000
            /\ Count("issue") >= 1 =>
                  \A i \in Positions("delay") : NthPosition("issue", 1) < i

\* The second call was issued exactly when the configured delay had passed
\* after the first had completed.
C18_Witness ==
    /\ pc = "calling"
    /\ Count("issue") = 2
    /\ ops[1][2] > 0
    /\ (ops[NthPosition("issue", 2)][3] - ops[NthPosition("complete", 1)][3]) * ops[1][2]
          = 60 * 1000

\* ======================================================== transform steps
\* adjustPricesTransform and calculateReturnsTransform, each applied on its
\* own to every bounded series and selector.

\* One bar of the adjusted endpoint with a present or absent adjClose and
\* split coefficient (0 stands for absent), a zero or non-zero close.
StepBar(ticker, i, open, close, volume, adjClose, coefficient) ==
    [ticker |-> ticker, interval |-> "1d", datetime |-> <<i, 0>>,
     open |-> open, high |-> Price(12), low |-> Price(8),
     close |-> close, volume |-> volume]
    @@ (IF adjClose # 0 THEN [adjClose |-> adjClose] ELSE [x \in {} |-> 0])
    @@ (IF coefficient # 0 THEN [splitCoefficient |-> coefficient] ELSE [x \in {} |-> 0])

\* Single bars: close 0 or 10, adjClose absent or 5, coefficient absent,
\* 0.5 or 2.0.
AdjustInputs ==
    {<<StepBar("A", 1, Price(9), close, volume, adjClose, coefficient)>> :
        close \in {0, Price(10)}, volume \in {100, 101},
        adjClose \in {0, Price(5)},
        coefficient \in {0, PriceScale \div 2, 2 * PriceScale}}

\* Series of plain bars of one or two tickers, in datetime order, with zero
\* and non-zero opens and closes.
ReturnBars == [ticker : Tickers, open : {0, Price(9)}, close : {0, Price(10)}]

ReturnInputs ==
    {[i \in 1..Len(bars) |->
         StepBar(bars[i].ticker, i, bars[i].open, bars[i].close, 100, 0, 0)] :
        bars \in SeqsUpTo(ReturnBars, MaxSeries)}

StepSelectors == {SelectorOf(letters) : letters \in SUBSET {"o", "c", "a", "r"}}

StepRequests ==
    {validateAndBuildRequest(options).request :
        options \in [ticker : {<<"A", "B">>},
                     date : [start : {<<1>>}, end : {<<MaxDay>>}],
                     granularity : Granularities,
                     fields : StepSelectors,
                     unadjusted : {FALSE},
                     cachePolicy : {"use"},
                     plan : {FALSE},
                     yes : {FALSE}]}

InitStep ==
    /\ pc = "final"
    /\ request \in StepRequests
    /\ finalData \in AdjustInputs \cup ReturnInputs
    /\ written = NotWritten
    /\ unadjusted = FALSE
    /\ store = {}
    /\ storeBefore = {}
    /\ planned = FALSE
    /\ api = NoSeries
    /\ coverage = EmptyMap
    /\ cachedData = <<>>
    /\ newData = <<>>
    /\ ops = <<>>
    /\ now = 0
    /\ rateLimitDelay = 0

StepUnchanged ==
    UNCHANGED <<store, storeBefore, request, planned, api, coverage, cachedData,
                newData, finalData, ops, unadjusted, now, rateLimitDelay>>

AdjustPrices ==
    /\ pc = "final"
    /\ written' = adjustPricesTransform(finalData, request)
    /\ pc' = "adjusted"
    /\ StepUnchanged

CalculateReturns ==
    /\ pc = "final"
    /\ written' = calculateReturnsTransform(finalData, request)
    /\ pc' = "returns"
    /\ StepUnchanged

NextStep == AdjustPrices \/ CalculateReturns

SpecStep == InitStep /\ [][NextStep]_vars

\* ------------------------------------------------------------ step claims
\* The ratio the bar is to be scaled by, as a fraction: the split
\* coefficient when present, adjClose / close otherwise.
RatioOf(point) ==
    IF "splitCoefficient" \in DOMAIN point
    THEN Quotient(point.splitCoefficient, PriceScale)
    ELSE Quotient(point.adjClose, point.close)

\* C23: when the adjustment step runs, a bar with a non-zero close and an
\* adjClose has open, high, low and close multiplied by the ratio (split
\* coefficient, or adjClose / close when the coefficient is absent), rounded
\* to four decimals, and volume divided by it, rounded to the nearest
\* integer; any other bar is returned unchanged.
C23_AdjustByRatio ==
    (pc = "adjusted" /\ wantsAdjusted(request)) =>
        /\ Len(written) = Len(finalData)
        /\ \A i \in 1..Len(finalData) :
              LET point == finalData[i]
              IN  IF point.close # 0 /\ "adjClose" \in DOMAIN point
                  THEN /\ DOMAIN written[i] = DOMAIN point
                       /\ \A k \in {"open", "high", "low", "close"} :
                             written[i][k]
                                 = RoundDiv(point[k] * RatioOf(point)[1], RatioOf(point)[2])
                       /\ written[i].volume
                             = RoundDiv(point.volume * RatioOf(point)[2], RatioOf(point)[1])
                       /\ \A k \in DOMAIN point \ {"open", "high", "low", "close", "volume"} :
                             written[i][k] = point[k]
                  ELSE written[i] = point

\* The price letters of the selector with the bar field each one names.
PriceFieldOf == [o |-> "open", h |-> "high", l |-> "low", c |-> "close"]

ReturnKeyOf(key) == key \o "_return"

\* C24: with returns requested, every bar after the first whose predecessor
\* has a non-zero close carries field / prevClose - 1 for each requested
\* price field, and the first bar carries no return; with returns not
\* requested no bar carries a return.
C24_ReturnsAgainstPreviousClose ==
    pc = "returns" =>
        /\ Len(written) = Len(finalData)
        /\ \A i \in 1..Len(finalData) :
              IF ~includes(request.fields, "r") \/ i = 1
              THEN DOMAIN written[i] \cap ReturnKeys = {}
              ELSE finalData[i - 1].close # 0 =>
                      \A letter \in DOMAIN PriceFieldOf :
                          includes(request.fields, letter) =>
                              LET key == PriceFieldOf[letter]
                                  prevClose == finalData[i - 1].close
                              IN  /\ ReturnKeyOf(key) \in DOMAIN written[i]
                                  /\ written[i][ReturnKeyOf(key)]
                                        = Quotient(finalData[i][key] - prevClose, prevClose)

\* The position of the previous bar of the same ticker, 0 when there is none.
PreviousOfTicker(data, i) ==
    LET earlier == {j \in 1..(i - 1) : data[j].ticker = data[i].ticker}
    IN  IF earlier = {} THEN 0 ELSE CHOOSE j \in earlier : \A k \in earlier : k <= j

\* C27: in a series that holds bars of several tickers, every return a bar
\* carries is computed against the close of the previous bar of the same
\* ticker, and the first bar of each ticker carries no return.
C27_ReturnsWithinTicker ==
    (pc = "returns" /\ includes(request.fields, "r")) =>
        \A i \in 1..Len(finalData) :
            LET p == PreviousOfTicker(finalData, i)
            IN  IF p = 0 THEN DOMAIN written[i] \cap ReturnKeys = {}
                ELSE \A letter \in DOMAIN PriceFieldOf :
                        LET key == PriceFieldOf[letter]
                        IN  ReturnKeyOf(key) \in DOMAIN written[i] =>
                                /\ finalData[p].close # 0
                                /\ written[i][ReturnKeyOf(key)]
                                      = Quotient(finalData[i][key] - finalData[p].close,
                                                 finalData[p].close)

\* ================================================================ persist
\* What a 'use' run stores for an intraday request: the bars of getHistory,
\* labelled by transformData with the requested granularity, resampled when
\* the granularity is coarser than the interval they were fetched at, then
\* handed to updateSecurityData.
PersistGranularities == {"2min", "60min", "1h", "120min", "2h"}

\* transformData's bar for an intraday entry: interval is the granularity
\* of the request.
FetchedBar(granularity, level) ==
    [MinuteBar(level, FALSE, 0) EXCEPT !.interval = granularity]

PersistRequests ==
    {validateAndBuildRequest(options).request :
        options \in [ticker : {<<"A">>},
                     date : [start : {<<1>>}, end : {<<MaxDay>>}],
                     granularity : PersistGranularities,
                     fields : RunSelectors,
                     unadjusted : {FALSE},
                     cachePolicy : {"use"},
                     plan : {FALSE},
                     yes : {FALSE}]}

InitPersist ==
    /\ pc = "fetched"
    /\ request \in PersistRequests
    /\ \E levels \in SeqsUpTo({1, 2}, MaxSeries), start \in StartMinutes :
          newData = MinuteSeries([i \in 1..Len(levels) |->
                                     FetchedBar(request.granularity, levels[i])],
                                 start, NativeInterval(request.granularity))
    /\ finalData = <<>>
    /\ written = NotWritten
    /\ store = {}
    /\ storeBefore = {}
    /\ planned = FALSE
    /\ api = NoSeries
    /\ coverage = EmptyMap
    /\ cachedData = <<>>
    /\ ops = <<>>
    /\ unadjusted = FALSE
    /\ now = 0
    /\ rateLimitDelay = 0

\* if (newData.length > 0) await cache.updateSecurityData(newData)
Persist ==
    /\ pc = "resampled"
    /\ store' = updateSecurityData(store, finalData)
    /\ ops' = IF Len(finalData) > 0 THEN Append(ops, Op("updateSecurityData", "-")) ELSE ops
    /\ pc' = "persisted"
    /\ UNCHANGED <<storeBefore, request, planned, api, coverage, cachedData, newData,
                   finalData, written, unadjusted, now, rateLimitDelay>>

NextPersist == Resample \/ Persist

SpecPersist == InitPersist /\ [][NextPersist]_vars

\* C30: every persisted bar carries the request's granularity token as its
\* interval, and a later coverage analysis of the same request has no
\* missing range over the bar's day: the bar counts as cached.
C30_CacheKeyConsistency ==
    pc = "persisted" =>
        \A bar \in store :
            /\ bar.interval = request.granularity
            /\ RangesHolding(analyzeCacheCoverage(store, request),
                             bar.ticker, bar.datetime[1]) = {}
====
